---- MODULE Spec2Model ----
(***************************************************************************)
(* Buffering-and-export pipeline of the analytics collector.               *)
(*                                                                         *)
(* The event log is the in-memory libsql table `events`.  Ingestion        *)
(* (post_event) appends to it, the periodic handlers of main.rs read it    *)
(* and hand deltas to the relational sink (PostgresqlExporter) and to the  *)
(* columnar sink (ParquetExporter + GoogleStorageClient), and the          *)
(* shutdown handler runs one last pass per sink after SIGTERM.  The        *)
(* private endpoint renders counters over the log (PrometheusExporter),    *)
(* and each columnar upload asks a GoogleAuthClient for its access token.  *)
(*                                                                         *)
(* Time is a natural-number clock; Utc::now() reads it.  Timestamps are    *)
(* written with to_rfc3339 and compared as text by SQLite; for UTC values  *)
(* that text order is the order of the instants, so a timestamp is kept    *)
(* as the clock value it was read from.                                    *)
(***************************************************************************)
EXTENDS Naturals, Integers, Sequences, FiniteSets, Bags, TLC

\* ------------------------------------------------------------------ bounds
MaxEvents == 2      \* ingestion requests accepted in one behaviour
MaxClock == 2       \* the clock runs from 0 to MaxClock
MaxInflight == 2    \* post_event handlers between clock read and INSERT
MaxUploads == 2     \* periodic columnar cycles are started while fewer objects exist
MaxCalls == 3       \* get_access_token calls made on one GoogleAuthClient
MaxRows == 3        \* rows the log may hold when a behaviour starts
MaxBatch == 2       \* largest scale of batch_size
MaxRecords == 2     \* event records handed to one to_bytes call

\* ------------------------------------------------------- program constants
\* TimeDelta::minutes(1) of shutdown_handler, in clock units
ShutdownMargin == 1
\* Option::None of fetch_latest_recorded_at
None == -1
\* the 300 seconds of AccessToken::is_expired, in clock units (one minute)
ExpiryBuffer == 5

VARIABLES
    clock,          \* wall clock read by Utc::now()
    log,            \* rows of the libsql table events, in rowid (insertion) order
    inflight,       \* post_event calls that built their params but have not inserted
    next_id,        \* stand-in for generate_uuid_v4(): ids are never reused
    last_export_at, \* Arc<RwLock<DateTime<Utc>>> of periodic_parquet_export_handler
    handler,        \* periodic_parquet_export_handler: position and exported_started
    task,           \* export_rows_as_parquet runs: the spawned one and the drain's
    uploaded,       \* objects stored in the bucket, in upload order (sets of ids)
    queried,        \* ids that some periodic columnar cycle has had in its delta
    enabled,        \* PostgresqlExporter.enabled (DATABASE_URL was set at build)
    pg,             \* PostgresqlExporter::publish runs: the periodic one and the drain's
    dest,           \* rows of the PostgreSQL table events (a bag, to expose duplicates)
    batch_size,     \* rows per INSERT statement in batch_insert_events.  The source
                    \* fixes 100; the model keeps the chunking and scales the size
                    \* down with the deltas, each specification fixing its scale
    sd,             \* shutdown_handler / process: position
    auth,           \* one GoogleAuthClient and the outcome of its last call
    issued,         \* the access token the process obtained last, if any
    endpoint,       \* the answers the token exchange endpoint gives
    payloads,       \* the request bodies clients send to the public endpoint
    rendered,       \* the last response of GET /metrics
    event_records,  \* the records handed to ParqetSerializer::to_bytes
    written,        \* what that to_bytes call returned
    answer,         \* the last response of the public endpoint, with its request
    framings,       \* the Content-Type headers and body framings clients send
    execute_results,\* the outcomes the INSERT on the in-memory table can have
    flushed,        \* the last flush_since call and the records it returned
    bucket          \* the answers the storage endpoint gives to an upload

vars == <<clock, log, inflight, next_id, last_export_at, handler, task, uploaded,
          queried, enabled, pg, dest, batch_size, sd, auth, issued, endpoint,
          payloads, rendered, event_records, written, answer, framings,
          execute_results, flushed, bucket>>

ingest_vars == <<log, inflight, next_id>>
parquet_vars == <<last_export_at, handler, task, uploaded, queried>>
pg_vars == <<enabled, batch_size, pg, dest>>
auth_vars == <<auth, issued, endpoint>>
metrics_vars == <<payloads, rendered>>
serializer_vars == <<event_records, written>>
http_vars == <<answer, framings, execute_results>>
storage_vars == <<flushed, bucket>>

\* ------------------------------------------------------------ pure helpers
ToSet(s) == {s[i] : i \in DOMAIN s}

Ids(s) == {s[i].id : i \in DOMAIN s}

Min(a, b) == IF a <= b THEN a ELSE b

\* the rows of s whose id is in keep, in the order of s
RECURSIVE SelectRows(_, _)
SelectRows(s, keep) ==
    IF s = <<>> THEN <<>>
    ELSE IF Head(s).id \in keep
         THEN <<Head(s)>> \o SelectRows(Tail(s), keep)
         ELSE SelectRows(Tail(s), keep)

IsAscending(s) ==
    \A i, j \in DOMAIN s : i < j => s[i].recorded_at <= s[j].recorded_at

\* SELECT ... FROM events WHERE recorded_at > ?: no ORDER BY, the table is
\* scanned in rowid order
RowsAfter(rows, since) ==
    SelectRows(rows, {x.id : x \in {r \in ToSet(rows) : r.recorded_at > since}})

\* the ts texts that are RFC 3339 date-times, with the instant each denotes
DateTimes == {<<"2023-01-01T10:00:00Z", 1>>}

\* Deserialize of DateTime<Utc>: the instant, or nothing on a parse error
parse_date_time(text) ==
    IF \E d \in DateTimes : d[1] = text
    THEN <<(CHOOSE d \in DateTimes : d[1] = text)[2]>>
    ELSE <<>>

\* Option<String> of an optional key
OptionalKey(body, key) == IF key \in DOMAIN body THEN <<body[key]>> ELSE <<>>

\* storage::memory Event, through EventVisitor and IntermediateEvent: the
\* event a stored payload stands for, or nothing when serde_json::from_str
\* fails on a missing key or on a ts that is no date-time
EventOf(body) ==
    IF /\ {"entity", "action", "appId"} \subseteq DOMAIN body
       /\ "ts" \in DOMAIN body => parse_date_time(body.ts) # <<>>
    THEN <<[ts |-> IF "ts" \in DOMAIN body THEN parse_date_time(body.ts) ELSE <<>>,
            entity |-> body.entity, action |-> body.action,
            path |-> OptionalKey(body, "path"), app_id |-> body.appId]>>
    ELSE <<>>

\* from_row::<EventRecord>(&valid_row).ok()
from_row(row) ==
    IF EventOf(row.event) = <<>> THEN <<>>
    ELSE <<[id |-> row.id, recorded_at |-> row.recorded_at,
            recorded_by |-> <<row.recorded_by>>, event |-> EventOf(row.event)[1]]>>

\* the filter_map of flush_since over the row stream
RECURSIVE FilterMapRows(_)
FilterMapRows(rows) ==
    IF rows = <<>> THEN <<>>
    ELSE from_row(Head(rows)) \o FilterMapRows(Tail(rows))

\* storage::memory::flush_since
flush_since(rows, since) == FilterMapRows(RowsAfter(rows, since))

\* ascending recorded_at order, rows of equal recorded_at in rowid order
RECURSIVE InsertAscending(_, _)
InsertAscending(s, r) ==
    IF s = <<>> THEN <<r>>
    ELSE IF Head(s).recorded_at <= r.recorded_at
         THEN <<Head(s)>> \o InsertAscending(Tail(s), r)
         ELSE <<r>> \o s

RECURSIVE SortAscending(_)
SortAscending(s) ==
    IF s = <<>> THEN <<>>
    ELSE InsertAscending(SortAscending(SubSeq(s, 1, Len(s) - 1)), s[Len(s)])

\* storage::memory::flush, which main.rs and ParquetExporter::publish call
\* with the connection only.  Its body is not in the source tree; it is the
\* event log's query given no cursor: all events, in ascending recorded_at
\* order.
flush(rows) == SortAscending(rows)

\* variant of RowsAfterFlush: flush hands the rows over and empties the table
RowsAfterFlush_drained(rows) == <<>>

\* the table after flush has run: it is a query, the rows stay where they are
RowsAfterFlush(rows) == rows

\* variant of ParquetPublishRows: the exporter's cursor bounds the query
ParquetPublishRows_since(rows, since) == RowsAfter(rows, since)

\* the rows ParquetExporter::publish serializes; its last_export_at field is
\* never read
ParquetPublishRows(rows, since) == flush(rows)

\* a recorded_at text that is no RFC 3339 timestamp; as text it is greater
\* than every timestamp the exporter writes
Garbled == 99

\* variant of parse_from_rfc3339: a text that does not parse is read as the
\* epoch
parse_from_rfc3339_epoch(text) == IF text = Garbled THEN 0 ELSE text

\* DateTime::parse_from_rfc3339(s).ok(), then with_timezone(&Utc)
parse_from_rfc3339(text) == IF text = Garbled THEN None ELSE text

\* SELECT MAX(recorded_at) FROM events on the destination
fetch_latest_recorded_at(table) ==
    IF BagToSet(table) = {} THEN None
    ELSE parse_from_rfc3339(
            CHOOSE m \in {r.recorded_at : r \in BagToSet(table)} :
               \A r \in BagToSet(table) : r.recorded_at <= m)

\* variant of RowsAfterFetch: the rows read are removed from the table
RowsAfterFetch_drained(rows) == <<>>

\* the in-memory table after fetch_new_events: both its statements are SELECTs
RowsAfterFetch(rows) == rows

\* the query fetch_new_events runs against the in-memory table
fetch_new_events(rows, latest) ==
    IF latest # None THEN RowsAfter(rows, latest) ELSE rows

\* events.chunks(batch_size): the chunk that starts at row i
ChunkAt(events, i) == SubSeq(events, i, Min(i + batch_size - 1, Len(events)))

\* the tuple fetch_new_events pushes for a row: (id, recorded_at,
\* recorded_by, event); post_event stored the payload's appId as recorded_by
TupleOf(r) == <<r.id, r.recorded_at, r.recorded_by, r.event>>

\* variant of Values: every row numbered from $1
Values_samebase(chunk) == [i \in 1..Len(chunk) |-> <<1, 2, 3, 4>>]

\* the VALUES groups of one statement: for the row at index i (from 0),
\* base = i * 4 and the placeholders $base+1 .. $base+4
Values(chunk) ==
    [i \in 1..Len(chunk) |->
        LET base == (i - 1) * 4 IN <<base + 1, base + 2, base + 3, base + 4>>]

\* the parameter list of one statement: four pushes per row, in chunk order
RECURSIVE Params(_)
Params(chunk) ==
    IF chunk = <<>> THEN <<>> ELSE TupleOf(Head(chunk)) \o Params(Tail(chunk))

\* the statement batch_insert_events builds for one chunk
InsertStatement(chunk) ==
    [columns |-> <<"id", "recorded_at", "recorded_by", "event">>,
     values |-> Values(chunk),
     params |-> Params(chunk)]

\* the rows a statement offers to the table: a column of a VALUES group takes
\* the parameter its placeholder numbers
StatementRows(stmt) ==
    LET bound(i, name) ==
           stmt.params[stmt.values[i][CHOOSE k \in 1..4 : stmt.columns[k] = name]]
    IN {[id |-> bound(i, "id"), recorded_at |-> bound(i, "recorded_at"),
         recorded_by |-> bound(i, "recorded_by"), event |-> bound(i, "event")] :
           i \in DOMAIN stmt.values}

\* variant of InsertChunk: the statement without its ON CONFLICT clause on a
\* table without the key
InsertChunk_noconflict(table, chunk) ==
    table (+) SetToBag(StatementRows(InsertStatement(chunk)))

\* one INSERT ... ON CONFLICT (id) DO NOTHING statement
InsertChunk(table, chunk) ==
    table (+) SetToBag({r \in StatementRows(InsertStatement(chunk)) :
                          r.id \notin {d.id : d \in BagToSet(table)}})

\* variant of NextWatermark: the live cursor backdated like the drain's
NextWatermark_backdated(result, exported_started, old, now) ==
    exported_started - ShutdownMargin

\* variant of NextWatermark: Utc::now() read when the cycle has completed
NextWatermark_completion(result, exported_started, old, now) == now

\* the value periodic_parquet_export_handler writes through the guard after
\* handle.await
NextWatermark(result, exported_started, old, now) == exported_started

\* variant of NeedsUpload: the upload block without its guard
NeedsUpload_always(rows) == TRUE

\* `if rows > 0` of export_rows_as_parquet, on the count publish returned
NeedsUpload(rows) == rows > 0

\* ------------------------------------------------------------ object names
\* VERSION of the serializer
VERSION == "1.1.0"

\* values of PARQUET_STORAGE_BUCKET, as their segments between "/": a bucket
\* alone, a bucket with a prefix, a bucket whose prefix is the version string
Buckets == {<<"bucket">>, <<"bucket", "events">>, <<"bucket", VERSION>>}

\* self.bucket.split_once("/"): the bucket and the rest, the rest empty when
\* there is no "/"
split_once(value) == [bucket |-> Head(value), prefix |-> Tail(value)]

\* Duration::as_micros of the time since the epoch, the clock being in minutes
as_micros(now) == now * 60000000

\* the object name upload_binary_data puts into the URL: the name it was given
\* (micros.to_string(), kept as the number the text denotes), after the
\* bucket's prefix when there is one
object_name(value, name) == [prefix |-> split_once(value).prefix, name |-> name]

\* no upload request was sent
NoName == [prefix |-> <<>>, name |-> 0]

\* the request got no answer: it was not sent, or send() returned an error
NoStatus == 0

\* the answers of the storage endpoint: none, 200, 204, 403
StorageAnswers == {NoStatus, 200, 204, 403}

\* variant of is_success: every answer counts as success
is_success_any(status) == status # NoStatus

\* StatusCode::is_success
is_success(status) == status \in 200..299

\* the endpoint stores the object when it answers 2xx
Stores(status) == status \in 200..299

\* --------------------------------------------------------- GoogleAuthClient
\* Option<AccessToken> is a sequence of at most one [token, expires_at]
Tokens == {"ya29.a", "ya29.b"}

\* expires_in of the exchange response, in clock units; checked_add does not
\* overflow on them
Lifetimes == {5, 6, 7}

\* what the exchange endpoint may answer: no answer, a non-2xx status, a 2xx
\* body that is no TokenExchangeResponse, or a token
StsResponses ==
    {[kind |-> k, access_token |-> "", expires_in |-> 0] : k \in {"transport", "status", "body"}}
       \cup {[kind |-> "ok", access_token |-> t, expires_in |-> e] : t \in Tokens, e \in Lifetimes}

\* an endpoint that grants one token for one lifetime, or refuses
OneGrant ==
    {r \in StsResponses :
        \/ r.kind = "status"
        \/ r.kind = "ok" /\ r.access_token = "ya29.a" /\ r.expires_in = 7}

\* the file at service_account_token_path: unreadable, blank, or a token
IdentityFiles == {"missing", "empty", "jwt"}

\* variant of is_expired: a token exactly the buffer away from its expiry is
\* still good
is_expired_strict(token, now) == now + ExpiryBuffer > token.expires_at

\* variant of is_expired: the expiry instant itself, without the buffer
is_expired_nobuffer(token, now) == now >= token.expires_at

\* AccessToken::is_expired
is_expired(token, now) == now + ExpiryBuffer >= token.expires_at

\* GoogleAuthClient::new
GoogleAuthClient_new == <<>>

\* variant of CacheAfterError: a failed exchange clears the cache
CacheAfterError_cleared(cached) == <<>>

\* cached_token when exchange_token returns early with Err: never assigned
CacheAfterError(cached) == cached

\* read_service_account_token
read_service_account_token(file) == IF file = "jwt" THEN "ok" ELSE "err"

\* GoogleAuthClient::exchange_token on the cache `cached` at time `now`, with
\* the identity file and the endpoint's answer it meets.  `exchanged` tells
\* whether the request reached the endpoint.
exchange_token(cached, now, file, response) ==
    IF cached # <<>> /\ ~is_expired(cached[1], now)
    THEN [cached_token |-> cached, ret |-> "ok", token |-> cached[1].token,
          exchanged |-> FALSE]
    ELSE IF read_service_account_token(file) = "err"
    THEN [cached_token |-> CacheAfterError(cached), ret |-> "err", token |-> "",
          exchanged |-> FALSE]
    ELSE IF response.kind # "ok"
    THEN [cached_token |-> CacheAfterError(cached), ret |-> "err", token |-> "",
          exchanged |-> TRUE]
    ELSE [cached_token |-> <<[token |-> response.access_token,
                              expires_at |-> now + response.expires_in]>>,
          ret |-> "ok", token |-> response.access_token, exchanged |-> TRUE]

\* GoogleAuthClient::get_access_token
get_access_token(cached, now, file, response) == exchange_token(cached, now, file, response)

\* ------------------------------------------------------- payloads, metrics
\* A request body is a JSON object: a function from its keys to its values.
PageView == [entity |-> "page", action |-> "view", path |-> "/home", appId |-> "test-app"]
AnchorClick == [entity |-> "anchor", action |-> "click", appId |-> "test-app"]
SnakeCase == [entity |-> "page", action |-> "view", path |-> "/home", app_id |-> "test-app"]
BothKeys == [entity |-> "page", action |-> "view", appId |-> "test-app", app_id |-> "test-app"]

RequestBodies == {PageView, AnchorClick, SnakeCase, BothKeys}

\* A JSON value is kept as its text.  The values that are JSON numbers:
Numbers == {"12345"}

\* "appId": 12345
NumericAppId == [entity |-> "page", action |-> "view", appId |-> "12345"]
\* "ts": "not-a-date"
BadTs == [entity |-> "page", action |-> "view", ts |-> "not-a-date", appId |-> "test-app"]
\* "ts": "2023-01-01T10:00:00Z"
GoodTs == [entity |-> "page", action |-> "view", ts |-> "2023-01-01T10:00:00Z",
           appId |-> "test-app"]
\* a body that is not JSON text
NotJson == [raw |-> "{"]

\* every kind of body a client can send
RequestPayloads == {PageView, AnchorClick, SnakeCase, NumericAppId, BadTs, NotJson}

\* serde_json::from_str: the value, or nothing when the text is not JSON
from_str(payload) == IF "raw" \in DOMAIN payload THEN <<>> ELSE <<payload>>

\* Value::as_str: Some for a JSON string
as_str(value) == IF value \in Numbers THEN <<>> ELSE <<value>>

\* the validator built from schema.json, as the tests of schemas.rs pin it
\* down: entity, action and appId are required, page goes with view and
\* anchor with click, a key the schema does not name is rejected, ts, path
\* and appId are strings, and the format of ts is not checked
validate(body) ==
    /\ {"entity", "action", "appId"} \subseteq DOMAIN body
    /\ DOMAIN body \subseteq {"entity", "action", "ts", "path", "appId"}
    /\ <<body.entity, body.action>> \in {<<"page", "view">>, <<"anchor", "click">>}
    /\ \A key \in DOMAIN body \cap {"ts", "path", "appId"} : as_str(body[key]) # <<>>

\* variant of recorded_by: the entity is stored as the tenant
recorded_by_entity(json) ==
    IF "entity" \in DOMAIN json THEN as_str(json.entity) ELSE <<>>

\* json_payload.get("appId").and_then(|v| v.as_str())
recorded_by(json) ==
    IF "appId" \in DOMAIN json THEN as_str(json.appId) ELSE <<>>

\* post_event up to the params!() of its INSERT: the parameters for the id and
\* the time given, or nothing when it returns Err(InvalidPayload)
post_event_params(payload, id, now) ==
    LET json_payload == from_str(payload) IN
       IF json_payload = <<>> THEN <<>>
       ELSE IF ~validate(json_payload[1]) THEN <<>>
       ELSE IF recorded_by(json_payload[1]) = <<>> THEN <<>>
       ELSE <<[id |-> id, recorded_at |-> now,
               recorded_by |-> recorded_by(json_payload[1])[1], event |-> payload]>>

\* ApplicationError::into_response
into_response(error) == IF error = "InvalidPayload" THEN 400 ELSE 500

\* ------------------------------------------------------------- middleware
\* A header value is the sequence of the pieces of its text; ObsText is a
\* piece of bytes outside visible ASCII, which a HeaderValue may hold.
ObsText == "obs-text"

\* HeaderValue::to_str
to_str(value) == IF ObsText \in {value[i] : i \in DOMAIN value} THEN <<>> ELSE <<value>>

\* str::contains
contains(text, pattern) == pattern \in {text[i] : i \in DOMAIN text}

\* the 1024 of validate_body_length
BodyLimit == 1024

\* a response built by a layer or a handler, for the request it answers
Response(status, by, request) == [status |-> status, by |-> by, request |-> <<request>>]

\* validate_body_length: its response, or nothing when it calls next.run
validate_body_length(request) ==
    IF request.size_hint > BodyLimit
    THEN <<Response(413, "validate_body_length", request)>>
    ELSE <<>>

\* validate_content_type: its response, or nothing when it calls next.run
validate_content_type(request) ==
    IF request.content_type = <<>>
    THEN <<Response(400, "validate_content_type", request)>>
    ELSE LET content_type == to_str(request.content_type[1]) IN
       IF content_type = <<>>
       THEN <<Response(into_response("Unknown"), "validate_content_type", request)>>
       ELSE IF ~\E allowed \in {"application/json", "text/plain"} :
                   contains(content_type[1], allowed)
       THEN <<Response(400, "validate_content_type", request)>>
       ELSE <<>>

\* the ServiceBuilder of public_endpoint_handler: validate_content_type is the
\* outer layer, validate_body_length the next, TraceLayer answers nothing
public_layers(request) ==
    IF validate_content_type(request) # <<>> THEN validate_content_type(request)
    ELSE validate_body_length(request)

\* Content-Type headers: none, the two allowed types, one with a parameter,
\* two types that are not allowed, and values holding bytes outside ASCII
ContentTypes ==
    {<<>>, <<<<"application/json">>>>, <<<<"text/plain", "; charset=UTF-8">>>>,
     <<<<"text/html">>>>, <<<<"application/json", ObsText>>>>, <<<<ObsText>>>>}

\* a body of length bytes sent with a Content-Length, whose size hint is the
\* length, or chunked, whose size hint has the lower bound 0
BodyFramings ==
    {[length |-> length, size_hint |-> length] :
        length \in {64, BodyLimit, BodyLimit + 1}}
       \cup {[length |-> length, size_hint |-> 0] : length \in {64, BodyLimit + 1}}

Framings ==
    {[content_type |-> content_type, length |-> body.length,
      size_hint |-> body.size_hint] :
        content_type \in ContentTypes, body \in BodyFramings}

\* a short JSON body sent with its Content-Length
JsonFramed == [content_type |-> <<<<"application/json">>>>, length |-> 64, size_hint |-> 64]

\* no request was answered
NoAnswer == [status |-> 0, by |-> "none", request |-> <<>>]

\* serde_json::from_str::<Event> of exporter::prometheus: entity, action and
\* app_id are required fields, keys it does not name are ignored
MetricsEventOf(body) ==
    IF {"entity", "action", "app_id"} \subseteq DOMAIN body
    THEN <<[entity |-> body.entity, action |-> body.action,
            path |-> OptionalKey(body, "path"), app_id |-> body.app_id,
            instance_id |-> OptionalKey(body, "instance_id")]>>
    ELSE <<>>

\* generate_uuid_v4() of private_endpoint_handler
InstanceId == "instance"

\* the while loop of PrometheusExporter::publish: counter is the Family, a bag
\* of label sets
RECURSIVE CountRows(_, _, _)
CountRows(rows, instance_id, counter) ==
    IF rows = <<>> THEN counter
    ELSE LET event == MetricsEventOf(Head(rows).event) IN
         CountRows(Tail(rows), instance_id,
                   IF event = <<>> THEN counter
                   ELSE counter (+) SetToBag({[event[1] EXCEPT
                                                 !.instance_id = <<instance_id>>]}))

\* PrometheusExporter::publish: a new registry and family on every call
PrometheusPublish(rows, instance_id) == CountRows(rows, instance_id, EmptyBag)

\* variant of RowsAfterScan: the scan consumes the rows
RowsAfterScan_drained(rows) == <<>>

\* the table after `select event from events`
RowsAfterScan(rows) == rows

NoResponse == [status |-> "none", counts |-> EmptyBag, rows |-> 0]

\* ---------------------------------------------------------- ParqetSerializer
\* An EventRecord is [id, recorded_at, recorded_by, event], its event is
\* [ts, entity, action, path, app_id]; ts, path and recorded_by are Options.
\* An array of a nullable column holds Options, <<>> being the null.

\* DateTime::timestamp_millis of an instant given in clock units (minutes)
timestamp_millis(t) == t * 60000

\* variant of TsValue: an absent ts written as the epoch
TsValue_epoch(ts) == IF ts = <<>> THEN <<0>> ELSE <<timestamp_millis(ts[1])>>

\* event_record.event.ts.map(|t| t.timestamp_millis())
TsValue(ts) == IF ts = <<>> THEN <<>> ELSE <<timestamp_millis(ts[1])>>

\* event_fields
event_fields ==
    <<[name |-> "ts", nullable |-> TRUE], [name |-> "entity", nullable |-> FALSE],
      [name |-> "action", nullable |-> FALSE], [name |-> "path", nullable |-> TRUE],
      [name |-> "app_id", nullable |-> FALSE]>>

\* generate_schema: the fields pushed, in order; the struct field carries its
\* children
generate_schema ==
    <<[name |-> "id", nullable |-> FALSE, fields |-> <<>>],
      [name |-> "event", nullable |-> FALSE, fields |-> event_fields],
      [name |-> "recorded_at", nullable |-> FALSE, fields |-> <<>>],
      [name |-> "recorded_by", nullable |-> TRUE, fields |-> <<>>]>>

\* generate_record_batch: one push per record into each of the eight value
\* vectors, then the struct array and the batch of four arrays
generate_record_batch(records) ==
    LET column(value(_)) == [i \in 1..Len(records) |-> value(records[i])]
        id_value(r) == r.id
        ts_value(r) == TsValue(r.event.ts)
        entity_value(r) == r.event.entity
        action_value(r) == r.event.action
        path_value(r) == r.event.path
        app_id_value(r) == r.event.app_id
        recorded_at_value(r) == timestamp_millis(r.recorded_at)
        recorded_by_value(r) == r.recorded_by
    IN [batch |->
           [schema |-> generate_schema,
            columns |->
               <<column(id_value),
                 [ts |-> column(ts_value), entity |-> column(entity_value),
                  action |-> column(action_value), path |-> column(path_value),
                  app_id |-> column(app_id_value)],
                 column(recorded_at_value),
                 column(recorded_by_value)>>],
        row_count |-> Len(records)]

\* ArrowWriter::try_new, write, close: the magic, a row group when the batch
\* has rows, the footer with the schema and the row count, the magic
ArrowWrite(batch, rows) ==
    <<"PAR1">>
       \o (IF rows > 0 THEN <<[row_group |-> batch.columns]>> ELSE <<>>)
       \o <<[schema |-> batch.schema, num_rows |-> rows], "PAR1">>

\* ParqetSerializer::to_bytes: Ok((buffer, row_count))
to_bytes(records) ==
    LET generated == generate_record_batch(records) IN
       [kind |-> "ok", batch |-> generated.batch,
        bytes |-> ArrowWrite(generated.batch, generated.row_count),
        count |-> generated.row_count]

NotWritten == [kind |-> "none", batch |-> <<>>, bytes |-> <<>>, count |-> 0]

\* the records a call may be given: ids 1..n, each optional field present or
\* absent
RecordKinds ==
    {[recorded_at |-> 1, recorded_by |-> by,
      event |-> [ts |-> ts, entity |-> "user", action |-> "login", path |-> path,
                 app_id |-> "my-app"]] :
        by \in {<<>>, <<"test-user">>}, ts \in {<<>>, <<1>>},
        path \in {<<>>, <<"/login">>}}

RecordInputs ==
    {[i \in DOMAIN kinds |->
         [id |-> i, recorded_at |-> kinds[i].recorded_at,
          recorded_by |-> kinds[i].recorded_by, event |-> kinds[i].event]] :
        kinds \in UNION {[1..n -> RecordKinds] : n \in 0..MaxRecords}}

\* ---------------------------------------------------------------- initial
IdleTask == [pc |-> "idle", since |-> 0, delta |-> <<>>, result |-> "none",
             exchanged |-> FALSE, name |-> NoName, sent |-> FALSE,
             status |-> NoStatus]

\* the client before its first call
IdleAuth == [cached_token |-> GoogleAuthClient_new, calls |-> 0, exchanges |-> 0,
             exchanged |-> FALSE, ret |-> "none", token |-> "", file |-> "jwt",
             response |-> "ok", expires_in |-> 0]

\* Result<usize> of publish: Ok(rows), Err, or nothing returned yet
Ok(rows) == [kind |-> "ok", rows |-> rows]
Err == [kind |-> "err", rows |-> 0]
NoReturn == [kind |-> "none", rows |-> 0]

IdlePublish == [pc |-> "idle", latest |-> None, events |-> <<>>, next |-> 1,
                skipped |-> 0, failed |-> {}, ret |-> NoReturn]

\* no flush_since call was made
NotFlushed == [called |-> FALSE, since |-> 0, len |-> 0, rows |-> <<>>]

Workers == {"periodic", "drain"}

InitPipeline ==
    /\ clock = 0
    /\ log = <<>>
    /\ inflight = {}
    /\ next_id = 1
    /\ last_export_at = 0
    /\ handler = [pc |-> "tick", exported_started |-> 0]
    /\ task = [w \in Workers |-> IdleTask]
    /\ uploaded = <<>>
    /\ queried = {}
    /\ pg = [p \in Workers |-> IdlePublish]
    /\ dest = EmptyBag
    /\ sd = "wait"
    /\ auth = IdleAuth
    /\ issued = <<>>
    /\ rendered = NoResponse
    /\ answer = NoAnswer
    /\ flushed = NotFlushed

\* no to_bytes call is made
InitCommon == InitPipeline /\ event_records = <<>> /\ written = NotWritten

Init ==
    /\ InitCommon
    /\ enabled \in BOOLEAN
    /\ batch_size = 1
    /\ payloads = RequestBodies
    /\ endpoint = StsResponses
    /\ framings = Framings
    /\ execute_results = {"ok", "err"}
    /\ bucket = StorageAnswers

\* the process runs until shutdown_handler returns or panics
Running == sd \notin {"exit_ok", "exit_panic"}

\* ------------------------------------------------------------------ clock
Tick ==
    /\ clock < MaxClock
    /\ clock' = clock + 1
    /\ UNCHANGED <<ingest_vars, parquet_vars, pg_vars, sd,
                 auth_vars, metrics_vars, serializer_vars, http_vars, storage_vars>>

\* -------------------------------------------------------------- ingestion
\* a request on the public endpoint, through the layers and post_event up to
\* the params!() of the INSERT: a request a layer or the handler rejects is
\* answered and changes nothing else; for the others the id and Utc::now()
\* are taken here, the statement runs later
post_event_stamp ==
    /\ Running
    /\ \E payload \in payloads, framing \in framings :
          LET request == [content_type |-> framing.content_type,
                          length |-> framing.length,
                          size_hint |-> framing.size_hint, payload |-> payload]
              params == post_event_params(payload, next_id, clock)
          IN IF public_layers(request) # <<>>
             THEN /\ answer' = public_layers(request)[1]
                  /\ UNCHANGED <<inflight, next_id>>
             ELSE IF params = <<>>
             THEN /\ answer' = Response(into_response("InvalidPayload"),
                                        "post_event", request)
                  /\ UNCHANGED <<inflight, next_id>>
             ELSE /\ next_id <= MaxEvents
                  /\ Cardinality(inflight) < MaxInflight
                  /\ inflight' = inflight \cup
                         {[params |-> params[1], request |-> request]}
                  /\ next_id' = next_id + 1
                  /\ UNCHANGED answer
    /\ UNCHANGED <<clock, log, parquet_vars, pg_vars, sd,
                 auth_vars, metrics_vars, serializer_vars, framings, execute_results,
                 storage_vars>>

\* connection.execute returns: the INSERT INTO events is visible and the
\* request is answered 202, or the error is answered through into_response
post_event_insert ==
    /\ Running
    /\ \E e \in inflight, result \in execute_results :
          /\ inflight' = inflight \ {e}
          /\ IF result = "ok"
             THEN /\ log' = Append(log, e.params)
                  /\ answer' = Response(202, "post_event", e.request)
             ELSE /\ log' = log
                  /\ answer' = Response(into_response("Unknown"), "post_event",
                                        e.request)
    /\ UNCHANGED <<clock, next_id, parquet_vars, pg_vars, sd,
                 auth_vars, metrics_vars, serializer_vars, framings, execute_results,
                 storage_vars>>

\* ------------------------------------------------------------ flush_since
\* one call of flush_since on the connection, with a cursor up to now; len is
\* the number of rows the table held
call_flush_since ==
    /\ Running
    /\ \E since \in 0..clock :
          flushed' = [called |-> TRUE, since |-> since, len |-> Len(log),
                      rows |-> flush_since(log, since)]
    /\ UNCHANGED <<clock, ingest_vars, parquet_vars, pg_vars, sd, auth_vars,
                 metrics_vars, serializer_vars, http_vars, bucket>>

\* ------------------------------------------------- columnar export (task)
QueryFailures == {"query", "serialize", "panic"}
UploadFailures == {"client", "token", "upload", "panic"}

\* export_rows_as_parquet up to `exporter.publish(..).await?`
export_query(w) ==
    /\ Running
    /\ task[w].pc = "query"
    /\ \/ LET rows == ParquetPublishRows(log, task[w].since) IN
          /\ task' = [task EXCEPT ![w].delta = rows,
                                  ![w].pc = IF NeedsUpload(Len(rows)) THEN "upload" ELSE "done",
                                  ![w].result = IF NeedsUpload(Len(rows)) THEN "none" ELSE "ok"]
          /\ queried' = IF w = "periodic" THEN queried \cup Ids(rows) ELSE queried
       \/ \E f \in QueryFailures :
          /\ task' = [task EXCEPT ![w].pc = "done", ![w].result = f, ![w].delta = <<>>]
          /\ UNCHANGED queried
    /\ log' = RowsAfterFlush(log)
    /\ UNCHANGED <<clock, inflight, next_id, last_export_at, handler, uploaded, pg_vars, sd,
                 auth_vars, metrics_vars, serializer_vars, http_vars, storage_vars>>

\* export_rows_as_parquet, the `if rows > 0` block: GoogleStorageClient::new
\* (a client for the bucket the environment names, whose GoogleAuthClient has
\* no cached token), the time for the object's name, the token for the
\* Authorization header, the upload request and the check of its answer.  The client is dropped when the
\* function returns.
export_upload(w) ==
    /\ Running
    /\ task[w].pc = "upload"
    /\ \/ /\ \E f \in {"client", "panic"} :
                task' = [task EXCEPT ![w].pc = "done", ![w].result = f]
          /\ UNCHANGED <<uploaded, issued>>
       \/ \E file \in IdentityFiles, response \in endpoint :
             LET r == get_access_token(GoogleAuthClient_new, clock, file, response) IN
                /\ issued' = IF r.ret = "ok" /\ r.exchanged THEN r.cached_token ELSE issued
                /\ \/ /\ r.ret = "err"
                      /\ task' = [task EXCEPT ![w].pc = "done", ![w].result = "token",
                                              ![w].exchanged = r.exchanged]
                      /\ UNCHANGED uploaded
                   \/ /\ r.ret = "ok"
                      /\ \E status \in bucket :
                            /\ uploaded' = IF Stores(status)
                                           THEN Append(uploaded, Ids(task[w].delta))
                                           ELSE uploaded
                            /\ \E value \in Buckets :
                                  task' = [task EXCEPT
                                     ![w].pc = "done",
                                     ![w].result = IF status # NoStatus /\ is_success(status)
                                                   THEN "ok" ELSE "upload",
                                     ![w].exchanged = r.exchanged,
                                     ![w].sent = TRUE,
                                     ![w].status = status,
                                     ![w].name = IF Stores(status)
                                                 THEN object_name(value, as_micros(clock))
                                                 ELSE NoName]
    /\ UNCHANGED <<clock, ingest_vars, last_export_at, handler, queried, pg_vars, sd,
                 auth, endpoint, metrics_vars, serializer_vars, http_vars, storage_vars>>

\* ---------------------------------------- periodic_parquet_export_handler
\* interval.tick() fires, exported_started is taken, the task is spawned and
\* copies last_export_at
parquet_tick ==
    /\ Running
    /\ handler.pc = "tick"
    /\ Len(uploaded) < MaxUploads
    /\ handler' = [pc |-> "await", exported_started |-> clock]
    /\ task' = [task EXCEPT !["periodic"] =
                   [pc |-> "query", since |-> last_export_at, delta |-> <<>>,
                    result |-> "none", exchanged |-> FALSE, name |-> NoName,
                    sent |-> FALSE, status |-> NoStatus]]
    /\ UNCHANGED <<clock, ingest_vars, last_export_at, uploaded, queried, pg_vars, sd,
                 auth_vars, metrics_vars, serializer_vars, http_vars, storage_vars>>

\* handle.await returns, the outcome is logged, the watermark is written
parquet_join ==
    /\ Running
    /\ handler.pc = "await"
    /\ task["periodic"].pc = "done"
    /\ last_export_at' = NextWatermark(task["periodic"].result,
                                       handler.exported_started, last_export_at, clock)
    /\ handler' = [handler EXCEPT !.pc = "tick"]
    /\ task' = [task EXCEPT !["periodic"] = IdleTask]
    /\ UNCHANGED <<clock, ingest_vars, uploaded, queried, pg_vars, sd,
                 auth_vars, metrics_vars, serializer_vars, http_vars, storage_vars>>

\* ------------------------------------------- PostgresqlExporter::publish
\* variant of PublishReturn: the rows the destination took
PublishReturn_inserted(events, skipped, failed) ==
    Len(events) - skipped - Cardinality(failed \cap Ids(events))

\* Ok(events.len()) of publish, after batch_insert_events has returned
PublishReturn(events, skipped, failed) == Len(events)

\* variant of MayPublish: the two periodic handlers share one lock, publish
\* waits while a columnar cycle is awaited
MayPublish_locked(p) ==
    pg[p].pc = "idle" /\ (p = "periodic" \/ sd = "pg") /\ handler.pc = "tick"

\* the periodic handler calls publish on every tick, shutdown_handler once
\* after the signal
MayPublish(p) == pg[p].pc = "idle" /\ (p = "periodic" \/ sd = "pg")

\* where shutdown_handler stands once the drain's publish has returned
AfterReturn(p) == IF p = "drain" THEN "pq" ELSE sd

\* `if !self.enabled { return Ok(0) }`
publish_disabled(p) ==
    /\ Running
    /\ MayPublish(p)
    /\ ~enabled
    /\ sd' = AfterReturn(p)
    /\ UNCHANGED <<clock, ingest_vars, parquet_vars, pg_vars,
                 auth_vars, metrics_vars, serializer_vars, http_vars, storage_vars>>

\* get_client().await? succeeds
publish_start_ok(p) ==
    /\ Running
    /\ MayPublish(p)
    /\ enabled
    /\ pg' = [pg EXCEPT ![p].pc = "latest", ![p].ret = NoReturn]
    /\ sd' = IF p = "drain" THEN "pg_run" ELSE sd
    /\ UNCHANGED <<clock, ingest_vars, parquet_vars, enabled, batch_size, dest,
                 auth_vars, metrics_vars, serializer_vars, http_vars, storage_vars>>

\* get_client().await? fails: publish returns the error, the caller logs it
publish_start_err(p) ==
    /\ Running
    /\ MayPublish(p)
    /\ enabled
    /\ pg' = [pg EXCEPT ![p].ret = Err]
    /\ sd' = AfterReturn(p)
    /\ UNCHANGED <<clock, ingest_vars, parquet_vars, enabled, batch_size, dest,
                 auth_vars, metrics_vars, serializer_vars, http_vars, storage_vars>>

\* fetch_latest_recorded_at: the maximum stored in the destination
publish_fetch_latest_ok(p) ==
    /\ Running
    /\ pg[p].pc = "latest"
    /\ pg' = [pg EXCEPT ![p].pc = "fetch", ![p].latest = fetch_latest_recorded_at(dest)]
    /\ UNCHANGED <<clock, ingest_vars, parquet_vars, enabled, batch_size, dest, sd,
                 auth_vars, metrics_vars, serializer_vars, http_vars, storage_vars>>

\* fetch_latest_recorded_at when the query fails: None
publish_fetch_latest_err(p) ==
    /\ Running
    /\ pg[p].pc = "latest"
    /\ pg' = [pg EXCEPT ![p].pc = "fetch", ![p].latest = None]
    /\ UNCHANGED <<clock, ingest_vars, parquet_vars, enabled, batch_size, dest, sd,
                 auth_vars, metrics_vars, serializer_vars, http_vars, storage_vars>>

\* publish from the rows fetch_new_events returned: Ok(0) on an empty delta,
\* otherwise on to batch_insert_events
Fetched(p, rows) ==
    /\ pg' = [pg EXCEPT ![p] = IF rows = <<>>
                                THEN [IdlePublish EXCEPT !.ret = Ok(0)]
                                ELSE [@ EXCEPT !.pc = "insert", !.events = rows,
                                               !.failed = {}]]
    /\ sd' = IF rows = <<>> THEN AfterReturn(p) ELSE sd
    /\ log' = RowsAfterFetch(log)
    /\ UNCHANGED <<clock, inflight, next_id, parquet_vars, enabled, batch_size, dest,
                 auth_vars, metrics_vars, serializer_vars, http_vars, storage_vars>>

\* fetch_new_events reads every row of its query
publish_fetch_new_ok(p) ==
    /\ Running
    /\ pg[p].pc = "fetch"
    /\ Fetched(p, fetch_new_events(log, pg[p].latest))

\* fetch_new_events when prepare or query fails (no rows), or when reading a
\* row fails (the rows read so far)
publish_fetch_new_err(p) ==
    /\ Running
    /\ pg[p].pc = "fetch"
    /\ LET rows == fetch_new_events(log, pg[p].latest) IN
          \E k \in 0..(Len(rows) - 1) : Fetched(p, SubSeq(rows, 1, k))

\* publish's locals after one chunk: they are dropped when publish returns;
\* the ids of the chunks whose INSERT failed are remembered for the next cycle
Inserted(run, conflicts, lost, last) ==
    IF last THEN [IdlePublish EXCEPT
                     !.failed = run.failed \cup lost,
                     !.ret = Ok(PublishReturn(run.events, run.skipped + conflicts,
                                              run.failed \cup lost))]
    ELSE [run EXCEPT !.next = @ + batch_size, !.skipped = @ + conflicts,
                     !.failed = @ \cup lost]

LastChunk(p) == pg[p].next + batch_size > Len(pg[p].events)

\* variant of LoopEnds: a failed statement ends the loop
LoopEnds_abort(result, last) == last \/ result = "err"

\* `for chunk in events.chunks(batch_size)`: the statement's result is looked
\* at only to log it, the loop ends after the last chunk
LoopEnds(result, last) == last

\* batch_insert_events, one chunk whose statement succeeds; after the last
\* chunk publish returns Ok(events.len())
publish_insert_chunk_ok(p) ==
    /\ Running
    /\ pg[p].pc = "insert"
    /\ LET chunk == ChunkAt(pg[p].events, pg[p].next)
           known == {r \in ToSet(chunk) : r.id \in {d.id : d \in BagToSet(dest)}}
       IN /\ dest' = InsertChunk(dest, chunk)
          /\ pg' = [pg EXCEPT ![p] = Inserted(@, Cardinality(known), {},
                                               LoopEnds("ok", LastChunk(p)))]
    /\ sd' = IF LoopEnds("ok", LastChunk(p)) THEN AfterReturn(p) ELSE sd
    /\ UNCHANGED <<clock, ingest_vars, parquet_vars, enabled, batch_size,
                 auth_vars, metrics_vars, serializer_vars, http_vars, storage_vars>>

\* batch_insert_events, one chunk whose statement fails: the error is logged
\* and the loop goes on
publish_insert_chunk_err(p) ==
    /\ Running
    /\ pg[p].pc = "insert"
    /\ pg' = [pg EXCEPT ![p] =
                 Inserted(@, 0, Ids(ChunkAt(pg[p].events, pg[p].next)),
                          LoopEnds("err", LastChunk(p)))]
    /\ sd' = IF LoopEnds("err", LastChunk(p)) THEN AfterReturn(p) ELSE sd
    /\ UNCHANGED <<clock, ingest_vars, parquet_vars, enabled, batch_size, dest,
                 auth_vars, metrics_vars, serializer_vars, http_vars, storage_vars>>

\* ------------------------------------------------------------ get_metrics
\* GET /metrics: PrometheusExporter::publish into a new buffer; a failing
\* query is answered with the error
get_metrics ==
    /\ Running
    /\ \/ rendered' = [status |-> "ok", counts |-> PrometheusPublish(log, InstanceId),
                       rows |-> Len(log)]
       \/ rendered' = [status |-> "error", counts |-> EmptyBag, rows |-> Len(log)]
    /\ log' = RowsAfterScan(log)
    /\ UNCHANGED <<clock, inflight, next_id, parquet_vars, pg_vars, sd, auth_vars, payloads,
                 serializer_vars, http_vars, storage_vars>>

\* ------------------------------------------- GoogleAuthClient, one object
\* one get_access_token call on the client, with the identity file and the
\* endpoint's answer it meets
auth_get_access_token ==
    /\ auth.calls < MaxCalls
    /\ \E file \in IdentityFiles, response \in endpoint :
          LET r == get_access_token(auth.cached_token, clock, file, response) IN
             auth' = [cached_token |-> r.cached_token,
                      calls |-> auth.calls + 1,
                      exchanges |-> auth.exchanges + (IF r.exchanged THEN 1 ELSE 0),
                      exchanged |-> r.exchanged, ret |-> r.ret, token |-> r.token,
                      file |-> file, response |-> response.kind,
                      expires_in |-> IF r.exchanged /\ r.ret = "ok"
                                     THEN response.expires_in
                                     ELSE auth.expires_in]
    /\ UNCHANGED <<clock, ingest_vars, parquet_vars, pg_vars, sd, issued, endpoint,
                 metrics_vars, serializer_vars, http_vars, storage_vars>>

\* ------------------------------------------------------- shutdown_handler
\* signal.recv() returns
sigterm ==
    /\ sd = "wait"
    /\ sd' = "pg"
    /\ UNCHANGED <<clock, ingest_vars, parquet_vars, pg_vars,
                 auth_vars, metrics_vars, serializer_vars, http_vars, storage_vars>>

\* variant of DrainCursor: the drain runs from the live watermark
DrainCursor_watermark(now) == last_export_at

\* Utc::now().checked_sub_signed(TimeDelta::minutes(1)).unwrap()
DrainCursor(now) == now - ShutdownMargin

\* export_rows_as_parquet is called with a fresh cursor, now minus one minute
drain_parquet_start ==
    /\ sd = "pq"
    /\ task' = [task EXCEPT !["drain"] =
                   [pc |-> "query", since |-> DrainCursor(clock), delta |-> <<>>,
                    result |-> "none", exchanged |-> FALSE, name |-> NoName,
                    sent |-> FALSE, status |-> NoStatus]]
    /\ sd' = "pq_run"
    /\ UNCHANGED <<clock, ingest_vars, last_export_at, handler, uploaded, queried, pg_vars,
                 auth_vars, metrics_vars, serializer_vars, http_vars, storage_vars>>

\* `.expect("did not export parquet")`, then main's select! completes: its
\* other branches are dropped and the runtime shuts down, so the handlers, the
\* publish runs, the spawned task and the requests in flight are gone with
\* their locals.  log and last_export_at keep their last values.
drain_exit ==
    /\ sd = "pq_run"
    /\ task["drain"].pc = "done"
    /\ sd' = IF task["drain"].result = "ok" THEN "exit_ok" ELSE "exit_panic"
    /\ inflight' = {}
    /\ handler' = [pc |-> "tick", exported_started |-> 0]
    /\ task' = [w \in Workers |-> IdleTask]
    /\ queried' = {}
    /\ pg' = [p \in Workers |-> IdlePublish]
    /\ UNCHANGED <<clock, log, next_id, last_export_at, uploaded, enabled, batch_size, dest,
                 auth_vars, metrics_vars, serializer_vars, http_vars, storage_vars>>

\* ------------------------------------------------------- ParqetSerializer
\* one to_bytes call on the records given
serialize ==
    /\ written.kind = "none"
    /\ written' = to_bytes(event_records)
    /\ UNCHANGED <<clock, ingest_vars, parquet_vars, pg_vars, sd, auth_vars,
                 metrics_vars, event_records, http_vars, storage_vars>>

\* ---------------------------------------------------------- specifications
Ingest == post_event_stamp \/ post_event_insert

ParquetPeriodic ==
    parquet_tick \/ export_query("periodic") \/ export_upload("periodic") \/ parquet_join

PublishOk(p) ==
    \/ publish_start_ok(p)
    \/ publish_fetch_latest_ok(p)
    \/ publish_fetch_new_ok(p)
    \/ publish_insert_chunk_ok(p)

PublishErr(p) ==
    \/ publish_start_err(p)
    \/ publish_fetch_latest_err(p)
    \/ publish_fetch_new_err(p)
    \/ publish_insert_chunk_err(p)

PublishSteps(p) == PublishOk(p) \/ PublishErr(p)

DrainParquet ==
    drain_parquet_start \/ export_query("drain") \/ export_upload("drain") \/ drain_exit

\* the whole process
Next ==
    \/ Tick
    \/ Ingest
    \/ get_metrics
    \/ ParquetPeriodic
    \/ \E p \in Workers : publish_disabled(p) \/ PublishSteps(p)
    \/ sigterm
    \/ DrainParquet

Spec == Init /\ [][Next]_vars

\* clients that send a short body with its length and type, and a table on
\* which every INSERT succeeds
OneTransport ==
    framings = {JsonFramed} /\ execute_results = {"ok"} /\ bucket = {200, 403}

\* one kind of client and an endpoint with one grant: the exports carry the
\* payload through unread, and read of a token only whether one was obtained;
\* statements of one row, so that a delta of two rows is two chunks
OneClient ==
    payloads = {PageView} /\ endpoint = OneGrant /\ batch_size = 1 /\ OneTransport

\* the process built without DATABASE_URL: the relational exporter is disabled
\* and every publish returns Ok(0) at once
InitColumnar == InitCommon /\ enabled = FALSE /\ OneClient

NextColumnar ==
    \/ Tick
    \/ Ingest
    \/ ParquetPeriodic
    \/ \E p \in Workers : publish_disabled(p)
    \/ sigterm
    \/ DrainParquet

SpecColumnar == InitColumnar /\ [][NextColumnar]_vars

\* the relational exporter enabled, in the behaviours in which the columnar
\* handler's interval does not fire; the columnar actions read and write
\* parquet_vars only, which no relational action reads
InitRelational == InitCommon /\ enabled = TRUE /\ OneClient

NextRelational ==
    \/ Tick
    \/ Ingest
    \/ \E p \in Workers : PublishSteps(p)
    \/ sigterm
    \/ DrainParquet

SpecRelational == InitRelational /\ [][NextRelational]_vars

\* the relational exporter against a destination that never fails, with the
\* periodic handler's interval firing for ever and no termination signal
NextRelationalLive ==
    \/ Tick
    \/ Ingest
    \/ PublishOk("periodic")

SpecRelationalLive ==
    /\ InitRelational
    /\ [][NextRelationalLive]_vars
    /\ WF_vars(post_event_insert)
    /\ WF_vars(PublishOk("periodic"))

\* the two periodic handlers side by side, both sinks configured, before any
\* termination signal
InitSinks == InitCommon /\ enabled = TRUE /\ OneClient

NextSinks ==
    \/ Tick
    \/ Ingest
    \/ ParquetPeriodic
    \/ PublishSteps("periodic")

SpecSinks == InitSinks /\ [][NextSinks]_vars

\* every reader of the event log but the periodic columnar handler, whose
\* task runs the export_rows_as_parquet the drain runs: both relational
\* passes, the metrics endpoint and the shutdown drain, beside ingestion
InitReaders == InitCommon /\ enabled = TRUE /\ OneClient

NextReaders ==
    \/ Tick
    \/ Ingest
    \/ get_metrics
    \/ \E p \in Workers : PublishSteps(p)
    \/ sigterm
    \/ DrainParquet

SpecReaders == InitReaders /\ [][NextReaders]_vars

\* the log as earlier requests left it: n rows with the ids 1..n, stamped at
\* the times ts
StoredLog(ts) ==
    [i \in DOMAIN ts |-> [id |-> i, recorded_at |-> ts[i],
                           recorded_by |-> PageView.appId, event |-> PageView]]

\* the relational exporter alone, over a log that already holds up to MaxRows
\* rows, at every scale of batch_size up to MaxBatch: a statement of several
\* rows, a last chunk shorter than the others
InitBatch ==
    /\ clock \in 0..MaxClock
    /\ log \in {StoredLog(ts) : ts \in UNION {[1..n -> 0..clock] : n \in 0..MaxRows}}
    /\ inflight = {}
    /\ next_id = Len(log) + 1
    /\ last_export_at = 0
    /\ handler = [pc |-> "tick", exported_started |-> 0]
    /\ task = [w \in Workers |-> IdleTask]
    /\ uploaded = <<>>
    /\ queried = {}
    /\ pg = [p \in Workers |-> IdlePublish]
    /\ dest = EmptyBag
    /\ sd = "wait"
    /\ auth = IdleAuth
    /\ issued = <<>>
    /\ rendered = NoResponse
    /\ event_records = <<>>
    /\ written = NotWritten
    /\ enabled = TRUE
    /\ payloads = {PageView}
    /\ endpoint = OneGrant
    /\ batch_size \in 1..MaxBatch
    /\ answer = NoAnswer
    /\ flushed = NotFlushed
    /\ OneTransport

NextBatch == PublishSteps("periodic")

SpecBatch == InitBatch /\ [][NextBatch]_vars

\* a row of the destination that another writer stored
ForeignRow(recorded_at) ==
    [id |-> 0, recorded_at |-> recorded_at, recorded_by |-> "other-app",
     event |-> AnchorClick]

\* the relational exporter alone, over a log that already holds up to MaxRows
\* rows and a destination that is empty or holds one row of another writer,
\* with a recorded_at that parses or one that does not
InitCursor ==
    /\ clock \in 0..MaxClock
    /\ log \in {StoredLog(ts) : ts \in UNION {[1..n -> 0..clock] : n \in 0..MaxRows}}
    /\ inflight = {}
    /\ next_id = Len(log) + 1
    /\ last_export_at = 0
    /\ handler = [pc |-> "tick", exported_started |-> 0]
    /\ task = [w \in Workers |-> IdleTask]
    /\ uploaded = <<>>
    /\ queried = {}
    /\ pg = [p \in Workers |-> IdlePublish]
    /\ dest \in {EmptyBag} \cup
                 {SetToBag({ForeignRow(t)}) : t \in (0..clock) \cup {Garbled}}
    /\ sd = "wait"
    /\ auth = IdleAuth
    /\ issued = <<>>
    /\ rendered = NoResponse
    /\ event_records = <<>>
    /\ written = NotWritten
    /\ enabled = TRUE
    /\ payloads = {PageView}
    /\ endpoint = OneGrant
    /\ batch_size = 1
    /\ answer = NoAnswer
    /\ flushed = NotFlushed
    /\ OneTransport

NextCursor == PublishSteps("periodic")

SpecCursor == InitCursor /\ [][NextCursor]_vars

\* one to_bytes call on every input of up to MaxRecords records
InitSerializer ==
    /\ InitPipeline
    /\ enabled = FALSE
    /\ OneClient
    /\ event_records \in RecordInputs
    /\ written = NotWritten

NextSerializer == serialize

SpecSerializer == InitSerializer /\ [][NextSerializer]_vars

\* the public endpoint alone: clients sending every kind of body in requests
\* the layers let through, and a table whose INSERT may fail
InitPublic ==
    /\ InitCommon
    /\ enabled = FALSE
    /\ batch_size = 1
    /\ payloads = RequestPayloads
    /\ endpoint = OneGrant
    /\ framings = {JsonFramed}
    /\ execute_results = {"ok", "err"}
    /\ bucket = {200, 403}

NextPublic == Tick \/ Ingest

SpecPublic == InitPublic /\ [][NextPublic]_vars

\* the public endpoint alone: clients sending a body the handler stores and
\* one it refuses, under every header and framing
InitLayers ==
    /\ InitCommon
    /\ enabled = FALSE
    /\ batch_size = 1
    /\ payloads = {PageView, NotJson}
    /\ endpoint = OneGrant
    /\ framings = Framings
    /\ execute_results = {"ok"}
    /\ bucket = {200, 403}

NextLayers == Tick \/ Ingest

SpecLayers == InitLayers /\ [][NextLayers]_vars

\* flush_since called on the table while clients send bodies with and
\* without a ts, a ts that is a date-time and one that is not
InitFlushSince ==
    /\ InitCommon
    /\ enabled = FALSE
    /\ batch_size = 1
    /\ payloads = {PageView, GoodTs, BadTs}
    /\ endpoint = OneGrant
    /\ OneTransport

NextFlushSince == Tick \/ Ingest \/ call_flush_since

SpecFlushSince == InitFlushSince /\ [][NextFlushSince]_vars

\* the periodic columnar handler against a token endpoint and a storage
\* endpoint that give every answer
InitUpload ==
    /\ InitCommon
    /\ enabled = FALSE
    /\ batch_size = 1
    /\ payloads = {PageView}
    /\ endpoint = StsResponses
    /\ framings = {JsonFramed}
    /\ execute_results = {"ok"}
    /\ bucket = StorageAnswers

NextUpload == Tick \/ Ingest \/ ParquetPeriodic

SpecUpload == InitUpload /\ [][NextUpload]_vars

\* the metrics endpoint beside ingestion and the periodic columnar handler,
\* clients sending every kind of body
InitMetrics ==
    /\ InitCommon
    /\ enabled = FALSE
    /\ batch_size = 1
    /\ payloads = RequestBodies
    /\ endpoint = OneGrant
    /\ OneTransport

NextMetrics ==
    \/ Tick
    \/ Ingest
    \/ get_metrics
    \/ ParquetPeriodic

SpecMetrics == InitMetrics /\ [][NextMetrics]_vars

\* one GoogleAuthClient called repeatedly while time passes, against an
\* endpoint that gives every answer
InitCredential ==
    /\ InitCommon
    /\ enabled = FALSE
    /\ batch_size = 1
    /\ payloads = {PageView}
    /\ endpoint = StsResponses
    /\ OneTransport

NextCredential == Tick \/ auth_get_access_token

SpecCredential == InitCredential /\ [][NextCredential]_vars

TypeOK ==
    /\ clock \in 0..MaxClock
    /\ next_id \in 1..(MaxEvents + 1)
    /\ Len(uploaded) <= MaxUploads + 2
    /\ sd \in {"wait", "pg", "pg_run", "pq", "pq_run", "exit_ok", "exit_panic"}

\* ------------------------------------------------------------------ claims
DestIds == {r.id : r \in BagToSet(dest)}

IsUploaded(id) == \E i \in DOMAIN uploaded : id \in uploaded[i]

\* handle.await has returned and the handler is back at interval.tick(); the
\* process is still running (at exit the handler is dropped, not resumed)
JoinStep == handler.pc = "await" /\ handler'.pc = "tick" /\ Running'

\* the periodic columnar task's publish returned Ok(rows)
PeriodicQueryOk ==
    /\ task["periodic"].pc = "query"
    /\ \/ task'["periodic"].pc = "upload"
       \/ task'["periodic"].pc = "done" /\ task'["periodic"].result = "ok"

\* the events with recorded_at strictly after cursor w (all when w = None),
\* each once, in ascending recorded_at order
IsDeltaSince(delta, rows, w) ==
    /\ Ids(delta) = {r.id : r \in {x \in ToSet(rows) : w = None \/ x.recorded_at > w}}
    /\ Len(delta) = Cardinality(Ids(delta))
    /\ IsAscending(delta)

\* batch_insert_events with every statement succeeding, from row i on
RECURSIVE BatchInsert(_, _, _)
BatchInsert(table, events, i) ==
    IF i > Len(events) THEN table
    ELSE BatchInsert(InsertChunk(table, ChunkAt(events, i)), events, i + batch_size)

\* C1: a periodic columnar cycle that failed (at the query, the serialization,
\* the client, the token, the upload, or by a panic of the task) leaves
\* last_export_at as it was before the cycle.
C1_FailedCycleKeepsWatermark ==
    [][(JoinStep /\ task["periodic"].result # "ok") => last_export_at' = last_export_at]_vars

\* C2: every event of the log with recorded_at <= the columnar watermark is in
\* at least one uploaded object.
C2_ExportedUpToWatermark ==
    \A e \in ToSet(log) : e.recorded_at <= last_export_at => IsUploaded(e.id)

\* C3: every event inserted into the log is eventually in the relational
\* destination table, while export ticks keep firing and the sink accepts
\* writes.
C3_EveryEventReachesDestination ==
    \A i \in 1..MaxEvents : (i \in Ids(log)) ~> (i \in DestIds)

\* C4: for each sink at most one export cycle is in flight at any time, the
\* periodic cycles and the shutdown drain's pass counted together.
C4_SingleFlightPerSink ==
    Running =>
       /\ Cardinality({p \in Workers : pg[p].pc # "idle"}) <= 1
       /\ Cardinality({w \in Workers : task[w].pc \in {"query", "upload"}}) <= 1

\* C5: the columnar watermark never decreases, whatever the cycles' outcomes.
C5_WatermarkNeverDecreases == [][last_export_at' >= last_export_at]_vars

\* a cycle has completed after time passed and objects were uploaded
C5_Witness ==
    handler.pc = "tick" /\ last_export_at > 0 /\ Len(uploaded) >= 1

\* C6: after a successful columnar cycle the watermark is cycle_start, the time
\* read before the cycle queried its delta, not the completion time.
C6_SuccessSetsCycleStart ==
    [][(JoinStep /\ task["periodic"].result = "ok")
          => last_export_at' = handler.exported_started]_vars

\* a successful cycle was joined at a time later than its start
C6_Witness ==
    /\ handler.pc = "tick"
    /\ Len(uploaded) >= 1
    /\ last_export_at = handler.exported_started
    /\ clock > last_export_at

C8_DeltaIsExactlySinceWatermark ==
    [][/\ PeriodicQueryOk =>
             IsDeltaSince(task'["periodic"].delta, log, task["periodic"].since)
       /\ \A p \in Workers :
             publish_fetch_new_ok(p) => IsDeltaSince(pg'[p].events, log, pg[p].latest)]_vars

\* C9: the destination never holds two rows with one id, and running the batch
\* insert on a delta a second time leaves the table as the first run left it.
C9_BatchInsertIdempotent ==
    /\ \A r \in BagToSet(dest) : CopiesIn(r, dest) = 1
    /\ \A r1, r2 \in BagToSet(dest) : r1.id = r2.id => r1 = r2
    /\ \A p \in Workers :
          LET once == BatchInsert(dest, pg[p].events, 1) IN
             /\ BatchInsert(once, pg[p].events, 1) = once
             /\ \A r \in BagToSet(once) : CopiesIn(r, once) = 1

\* a statement was executed on a row the destination already held
C9_Witness ==
    \E p \in Workers : pg[p].skipped > 0 /\ Ids(pg[p].events) \cap DestIds # {}

\* C10: the events of a chunk whose INSERT failed are in the delta of the
\* exporter's next cycle (unless the destination got them meanwhile).
C10_FailedChunkRetried ==
    [][\A p \in Workers :
          publish_fetch_new_ok(p) => (pg[p].failed \ DestIds) \subseteq Ids(pg'[p].events)]_vars

\* C11: no event is in more than one uploaded object, over periodic cycles,
\* retries after a failed cycle and the drain's pass.
C11_NoEventUploadedTwice ==
    \A i, j \in DOMAIN uploaded : i < j => uploaded[i] \cap uploaded[j] = {}

\* C12: a cycle whose delta is empty writes nothing to its sink, reports
\* success and leaves the sink's watermark as it was.
C12_EmptyDeltaKeepsWatermark ==
    [][/\ (JoinStep /\ task["periodic"].result = "ok" /\ task["periodic"].delta = <<>>)
             => (last_export_at' = last_export_at /\ uploaded' = uploaded)
       /\ \A p \in Workers :
             (publish_fetch_new_ok(p) /\ fetch_new_events(log, pg[p].latest) = <<>>)
                => (dest' = dest /\ pg'[p].pc = "idle")]_vars

\* the publish of columnar run w returned Ok(0)
EmptyQuery(w) ==
    /\ task[w].pc = "query"
    /\ task'[w].pc \in {"upload", "done"}
    /\ task'[w].result \notin QueryFailures
    /\ task'[w].delta = <<>>

\* C13: a columnar cycle that serialized zero rows returns success without
\* entering the block that builds the storage client, obtains the token and
\* sends the upload; that block only ever runs on a delta with rows.
C13_EmptyDeltaSkipsUpload ==
    [][\A w \in Workers :
          /\ EmptyQuery(w) =>
                /\ task'[w].pc = "done"
                /\ task'[w].result = "ok"
                /\ ~task'[w].exchanged
                /\ issued' = issued
                /\ uploaded' = uploaded
          /\ task[w].pc = "upload" => Len(task[w].delta) > 0]_vars

\* a periodic cycle has returned Ok on an empty delta
C13_Witness ==
    /\ handler.pc = "await"
    /\ task["periodic"].pc = "done"
    /\ task["periodic"].result = "ok"
    /\ task["periodic"].delta = <<>>
    /\ uploaded = <<>>

\* one get_access_token call was made on the client
CallStep == auth'.calls = auth.calls + 1

\* a token is cached and more than the buffer away from its expiry
FarFromExpiry(cached, now) ==
    cached # <<>> /\ cached[1].expires_at - now > ExpiryBuffer

\* C14: a call made while the cached token is more than 300 seconds from its
\* expiry returns that token, the one the call before returned, without an
\* exchange; a successful call made when the cached token is within 300
\* seconds of its expiry has made one exchange and cached the token it
\* returns.
C14_CachedTokenReused ==
    [][CallStep =>
          /\ FarFromExpiry(auth.cached_token, clock) =>
                /\ auth'.ret = "ok"
                /\ auth'.token = auth.cached_token[1].token
                /\ auth.ret = "ok" => auth'.token = auth.token
                /\ auth'.exchanges = auth.exchanges
                /\ auth'.cached_token = auth.cached_token
          /\ (~FarFromExpiry(auth.cached_token, clock) /\ auth'.ret = "ok") =>
                /\ auth'.exchanges = auth.exchanges + 1
                /\ auth'.cached_token # <<>>
                /\ auth'.cached_token[1].token = auth'.token
                /\ auth'.cached_token[1].expires_at \in {clock + e : e \in Lifetimes}]_vars

\* the second call was answered from the cache after one exchange
C14_Witness ==
    /\ auth.calls = 2
    /\ auth.exchanges = 1
    /\ auth.ret = "ok"
    /\ ~auth.exchanged
    /\ clock > 0

\* C15: a periodic columnar cycle sends an exchange request only when the
\* process holds no token from an earlier cycle or that token is within 300
\* seconds of its expiry.
C15_TokenReusedAcrossCycles ==
    [][(task["periodic"].pc = "upload" /\ task'["periodic"].exchanged)
          => ~FarFromExpiry(issued, clock)]_vars

\* C16: when an exchange is needed and the identity token is missing or empty,
\* or the endpoint answers with a non-2xx status, the call returns an error
\* and no token, and the cache is as it was.
C16_FailedExchangeKeepsCache ==
    [][(/\ CallStep
        /\ ~FarFromExpiry(auth.cached_token, clock)
        /\ (auth'.file \in {"missing", "empty"} \/ auth'.response = "status"))
          => /\ auth'.ret = "err"
             /\ auth'.token = ""
             /\ auth'.cached_token = auth.cached_token]_vars

\* a call failed at the endpoint while a token near its expiry was cached
C16_Witness ==
    /\ auth.ret = "err"
    /\ auth.exchanged
    /\ auth.response = "status"
    /\ auth.cached_token # <<>>

\* the label set the metrics sink renders for an event
LabelSetOf(event) ==
    [entity |-> event.entity, action |-> event.action, path |-> event.path,
     app_id |-> event.app_id, instance_id |-> <<InstanceId>>]

PeriodicPassStarts ==
    \/ pg["periodic"].pc = "idle" /\ pg'["periodic"].pc # "idle"
    \/ handler.pc = "tick" /\ handler'.pc = "await"

\* C19: after the signal the only passes run are the drain's, one relational
\* and then one columnar, the columnar one whatever the relational returned.
C19_ExactlyOneDrainPassPerSink ==
    [][/\ (sd # "wait" /\ Running) => ~PeriodicPassStarts
       /\ (sd \in {"pg", "pg_run"} /\ sd' # sd) => sd' \in {"pg_run", "pq"}
       /\ (sd = "pq" /\ sd' # sd) => (sd' = "pq_run" /\ task'["drain"].pc = "query")]_vars

\* C20: the process does not exit while a periodic cycle is in flight, and
\* not before the drain's columnar pass has returned.
C20_ExitCancelsNoCycle ==
    [][(Running /\ ~Running') =>
          /\ pg["periodic"].pc = "idle"
          /\ task["periodic"].pc \notin {"query", "upload"}
          /\ task["drain"].pc = "done"]_vars

\* C21: once the termination signal has been received no periodic cycle is
\* started, for the relational or the columnar sink; the passes that begin
\* after it are the drain's.
C21_NoPeriodicCycleAfterSignal ==
    [][(sd # "wait" /\ Running) =>
          /\ pg'["periodic"].pc # "idle" => pg["periodic"].pc # "idle"
          /\ handler'.pc = "await" => handler.pc = "await"]_vars

\* C22: no failure of an export pass ends the process: a failed publish or
\* columnar run, periodic or the drain's, leaves the process running or lets
\* it exit normally, and after a failed periodic cycle the handler is back at
\* its interval.
C22_ExportFailureNeverTerminates ==
    [][/\ \A w \in Workers :
             (task[w].pc = "done" /\ task[w].result # "ok") => sd' # "exit_panic"
       /\ \A p \in Workers : PublishErr(p) => Running'
       /\ (JoinStep /\ task["periodic"].result # "ok") => handler'.pc = "tick"]_vars

\* a step of the columnar handler or of its task
ColumnarStep ==
    handler' # handler \/ task' # task \/ last_export_at' # last_export_at
       \/ uploaded' # uploaded

\* a step of a relational publish
RelationalStep == pg' # pg \/ dest' # dest

\* each periodic handler can start its next cycle whatever the other one is
\* doing
TicksIndependent ==
    /\ (Running /\ handler.pc = "tick" /\ Len(uploaded) < MaxUploads)
          => ENABLED parquet_tick
    /\ (Running /\ enabled /\ pg["periodic"].pc = "idle")
          => ENABLED publish_start_ok("periodic")

\* C23: cycles of the two sinks are independent: a step of one sink's cycle,
\* failed or not, changes neither the watermark nor the destination of the
\* other sink, and a cycle in flight on one sink does not keep the other
\* sink's tick from running.
C23_SinksIndependent ==
    /\ []TicksIndependent
    /\ [][/\ ColumnarStep => UNCHANGED <<pg, dest>>
          /\ RelationalStep => UNCHANGED <<last_export_at, uploaded, handler, task>>]_vars

\* a relational cycle is writing its chunks while a failed columnar cycle
\* waits to be joined
C23_Witness ==
    /\ pg["periodic"].pc = "insert"
    /\ dest # EmptyBag
    /\ handler.pc = "await"
    /\ task["periodic"].pc = "done"
    /\ task["periodic"].result \notin {"ok", "none"}

\* C24: in every state of the event log recorded_at is non-decreasing in
\* insertion (rowid) order, also when several requests are handled at once.
C24_RecordedAtNonDecreasing ==
    \A i, j \in DOMAIN log : i < j => log[i].recorded_at <= log[j].recorded_at

Returns(p, from) == pg[p].pc = from /\ pg'[p].pc = "idle" /\ Running'

\* C26: an enabled relational publish returns the number of rows of the delta
\* it attempted to write, 0 for an empty delta, whether the rows were
\* inserted, skipped by the id conflict clause, or in a chunk whose INSERT
\* failed.
C26_PublishReturnsRowsAttempted ==
    [][\A p \in Workers :
          /\ Returns(p, "fetch") => pg'[p].ret = [kind |-> "ok", rows |-> 0]
          /\ Returns(p, "insert") =>
                /\ pg'[p].ret = [kind |-> "ok", rows |-> Len(pg[p].events)]
                /\ pg'[p].ret.rows > 0]_vars

\* a publish returned the size of its delta although a chunk failed and the
\* destination holds fewer rows
C26_Witness ==
    \E p \in Workers :
       /\ pg[p].pc = "idle"
       /\ pg[p].ret.kind = "ok"
       /\ pg[p].ret.rows = MaxEvents
       /\ pg[p].failed # {}
       /\ Cardinality(DestIds) < pg[p].ret.rows

\* the statement of the chunk at pg[p].next failed
ChunkFails(p) ==
    /\ pg[p].pc = "insert"
    /\ pg'[p] # pg[p]
    /\ Running'
    /\ dest' = dest
    /\ Ids(ChunkAt(pg[p].events, pg[p].next)) \subseteq pg'[p].failed

\* C27: the failure of one chunk's INSERT does not stop the relational cycle:
\* the next chunk of the same delta is attempted, the cycle returns only
\* after its last chunk, and publish returns success.
C27_FailedChunkDoesNotAbort ==
    [][\A p \in Workers :
          /\ (ChunkFails(p) /\ pg[p].next + batch_size <= Len(pg[p].events)) =>
                /\ pg'[p].pc = "insert"
                /\ pg'[p].events = pg[p].events
                /\ pg'[p].next = pg[p].next + batch_size
          /\ Returns(p, "insert") =>
                /\ pg[p].next + batch_size > Len(pg[p].events)
                /\ pg'[p].ret.kind = "ok"]_vars

\* a publish returned success over a delta of two chunks: the first failed,
\* the second is in the destination
C27_Witness ==
    \E p \in Workers :
       /\ pg[p].pc = "idle"
       /\ pg[p].ret.kind = "ok"
       /\ Len(log) = 2
       /\ pg[p].ret.rows = Len(log)
       /\ pg[p].failed = {log[1].id}
       /\ DestIds = {log[2].id}

\* run p executes the statement of the chunk at pg[p].next
ChunkStep(p) == pg[p].pc = "insert" /\ pg'[p] # pg[p] /\ Running'

\* the destination row of a log row
DestRowOf(r) ==
    [id |-> r.id, recorded_at |-> r.recorded_at, recorded_by |-> r.event.appId,
     event |-> r.event]

\* C28: the relational sink splits a delta into consecutive chunks of at most
\* batch_size rows that partition it in delta order: the first chunk starts
\* at the first row, each chunk is one statement, the next chunk starts where
\* the last one ended, and the cycle ends with the chunk that holds the last
\* row.  In a statement the row at index i (from 0) has the placeholders 4i+1
\* to 4i+4, bound to its id, recorded_at, recorded_by and event, and a
\* statement that succeeds offers exactly its chunk's rows to the table.
C28_ChunksPartitionDelta ==
    [][\A p \in Workers :
          /\ (pg[p].pc = "fetch" /\ pg'[p].pc = "insert") => pg'[p].next = 1
          /\ ChunkStep(p) =>
                LET events == pg[p].events
                    first == pg[p].next
                    last == Min(first + batch_size - 1, Len(events))
                    chunk == SubSeq(events, first, last)
                    stmt == InsertStatement(chunk)
                IN /\ first <= last
                   /\ Len(chunk) <= batch_size
                   /\ stmt.columns = <<"id", "recorded_at", "recorded_by", "event">>
                   /\ Len(stmt.values) = Len(chunk)
                   /\ Len(stmt.params) = 4 * Len(chunk)
                   /\ \A i \in 0..(Len(chunk) - 1) :
                         /\ stmt.values[i + 1] = <<4*i + 1, 4*i + 2, 4*i + 3, 4*i + 4>>
                         /\ stmt.params[4*i + 1] = chunk[i + 1].id
                         /\ stmt.params[4*i + 2] = chunk[i + 1].recorded_at
                         /\ stmt.params[4*i + 3] = chunk[i + 1].event.appId
                         /\ stmt.params[4*i + 4] = chunk[i + 1].event
                   /\ \/ dest' = dest /\ Ids(chunk) \subseteq pg'[p].failed
                      \/ dest' = dest (+) SetToBag({DestRowOf(chunk[i]) : i \in
                                          {j \in DOMAIN chunk : chunk[j].id \notin DestIds}})
                   /\ IF last < Len(events)
                      THEN /\ pg'[p].pc = "insert"
                           /\ pg'[p].events = events
                           /\ pg'[p].next = last + 1
                      ELSE pg'[p].pc = "idle"]_vars

\* a delta of three rows at two rows per statement: the first statement put
\* two rows into the destination, the chunk of the third row is next
C28_Witness ==
    /\ batch_size = 2
    /\ pg["periodic"].pc = "insert"
    /\ Len(pg["periodic"].events) = 3
    /\ pg["periodic"].next = 3
    /\ dest = SetToBag({DestRowOf(log[1]), DestRowOf(log[2])})

\* the names of the batch's top-level columns, in order
ColumnNames(batch) == [i \in DOMAIN batch.schema |-> batch.schema[i].name]

\* an Option and the cell written for it are both absent or both present
SameNull(option, cell) == (cell = <<>>) <=> (option = <<>>)

\* C29: serializing N records (N >= 0) yields a batch with exactly the four
\* top-level columns id, event, recorded_at, recorded_by and N rows in input
\* order, reports the count N, has a null at a row's event.ts, event.path or
\* recorded_by exactly when the record lacks that field, and the bytes are a
\* non-empty file also for N = 0.
C29_SerializerKeepsRowsAndNulls ==
    written.kind # "none" =>
       LET N == Len(event_records)
           cols == written.batch.columns
       IN /\ written.kind = "ok"
          /\ written.count = N
          /\ ColumnNames(written.batch) = <<"id", "event", "recorded_at", "recorded_by">>
          /\ Len(cols) = 4
          /\ Len(cols[1]) = N /\ Len(cols[3]) = N /\ Len(cols[4]) = N
          /\ \A f \in DOMAIN cols[2] : Len(cols[2][f]) = N
          /\ \A i \in 1..N :
                /\ cols[1][i] = event_records[i].id
                /\ cols[2].entity[i] = event_records[i].event.entity
                /\ cols[2].action[i] = event_records[i].event.action
                /\ cols[2].app_id[i] = event_records[i].event.app_id
                /\ cols[3][i] = 60000 * event_records[i].recorded_at
                /\ SameNull(event_records[i].event.ts, cols[2].ts[i])
                /\ SameNull(event_records[i].event.path, cols[2].path[i])
                /\ SameNull(event_records[i].recorded_by, cols[4][i])
                /\ cols[2].path[i] = event_records[i].event.path
                /\ cols[4][i] = event_records[i].recorded_by
          /\ Len(written.bytes) >= 3
          /\ written.bytes[1] = "PAR1"
          /\ written.bytes[Len(written.bytes)] = "PAR1"
          /\ written.bytes[Len(written.bytes) - 1].num_rows = N

\* two records were serialized, the first with every optional field, the
\* second with none
C29_Witness ==
    /\ written.kind = "ok"
    /\ Len(event_records) = 2
    /\ written.count = 2
    /\ event_records[1].event.ts # <<>> /\ event_records[1].event.path # <<>>
    /\ event_records[1].recorded_by # <<>>
    /\ event_records[2].event.ts = <<>> /\ event_records[2].event.path = <<>>
    /\ event_records[2].recorded_by = <<>>

\* run w stored an object in the bucket
ObjectUploaded(w) ==
    task[w].pc = "upload" /\ task'[w].pc = "done" /\ uploaded' # uploaded

\* C30: every object the columnar sink uploads is named by the serializer's
\* version string as prefix followed by the upload time in microseconds, so
\* that names are distinct and sort in upload order.
C30_ObjectNameVersionAndTime ==
    [][\A w \in Workers :
          ObjectUploaded(w) =>
             /\ task'[w].name.prefix = <<VERSION>>
             /\ task'[w].name.name = 60000000 * clock]_vars

\* the bodies that are JSON, pass the schema and carry a string appId
AcceptablePayloads == {PageView, AnchorClick, BadTs, GoodTs}

\* the body of the request the last answer is for
AnsweredPayload(a) == a.request[1].payload

\* C31: post_event appends exactly one event and answers 202 only for a body
\* that is JSON, passes the schema and carries a string appId, and the row's
\* recorded_by is that appId; a body that fails one of these is answered 400
\* and such a body only; a 400 and a 500 leave the log as it was.
C31_PostEventContract ==
    /\ [](answer.by = "post_event" =>
             /\ answer.status \in {202, 400, 500}
             /\ answer.status = 400 <=> AnsweredPayload(answer) \notin AcceptablePayloads)
    /\ [][/\ log' # log =>
                /\ Len(log') = Len(log) + 1
                /\ SubSeq(log', 1, Len(log)) = log
                /\ answer'.by = "post_event" /\ answer'.status = 202
                /\ log'[Len(log')].event = AnsweredPayload(answer')
                /\ log'[Len(log')].recorded_by = AnsweredPayload(answer').appId
          /\ (answer' # answer /\ answer'.by = "post_event") =>
                IF answer'.status = 202 THEN Len(log') = Len(log) + 1
                ELSE log' = log /\ next_id' = next_id]_vars

\* an anchor click was stored and answered 202 after a body with a numeric
\* appId was refused
C31_Witness ==
    /\ Len(log) = 2
    /\ log[2].event = AnchorClick /\ log[2].recorded_by = "test-app"
    /\ answer.status = 202 /\ AnsweredPayload(answer) = AnchorClick

\* the request carries a Content-Type in which one of the two allowed types
\* occurs
HasAllowedType(request) ==
    /\ request.content_type # <<>>
    /\ \E i \in DOMAIN request.content_type[1] :
          request.content_type[1][i] \in {"application/json", "text/plain"}

\* C32: a request without a Content-Type, or whose Content-Type contains
\* neither application/json nor text/plain, is answered 400 by
\* validate_content_type and goes no further; every other request is passed
\* on, so that the layer answers none of them.
C32_ContentTypeGate ==
    /\ answer.by # "none" =>
          IF HasAllowedType(answer.request[1])
          THEN answer.by # "validate_content_type"
          ELSE answer.by = "validate_content_type" /\ answer.status = 400
    /\ \A e \in inflight : HasAllowedType(e.request)

\* C33: of the requests that reach validate_body_length, one whose body is
\* larger than 1024 bytes is answered 413 and goes no further, one whose body
\* is at most 1024 bytes is passed on.
C33_BodyLengthGate ==
    /\ answer.by \in {"validate_body_length", "post_event"} =>
          IF answer.request[1].length > 1024
          THEN answer.by = "validate_body_length" /\ answer.status = 413
          ELSE answer.by = "post_event"
    /\ \A e \in inflight : e.request.length <= 1024

\* C35: flush_since(since) returns every accepted event whose recorded_at is
\* strictly greater than since, an event whose ts is no date-time included.
C35_FlushSinceDropsNoAcceptedEvent ==
    flushed.called =>
       \A i \in 1..flushed.len :
          log[i].recorded_at > flushed.since => log[i].id \in Ids(flushed.rows)

\* C34: every accepted event is counted by the next render: a render over a
\* log of k rows, all of them accepted by post_event, shows counts whose sum
\* is k.
C34_AcceptedEventsAreCounted ==
    rendered.status = "ok" => BagCardinality(rendered.counts) = rendered.rows

\* the drain's columnar pass has its rows: publish returned Ok
DrainQueryOk ==
    /\ task["drain"].pc = "query"
    /\ \/ task'["drain"].pc = "upload"
       \/ task'["drain"].pc = "done" /\ task'["drain"].result = "ok"
    /\ Running'

UploadReturns(w) == task[w].pc = "upload" /\ task'[w].pc = "done" /\ Running'

\* C37: in an upload the token is obtained before the request is sent: when
\* obtaining it fails no request is sent and the upload returns an error; a
\* request is only sent with a token; the upload returns success only when the
\* storage endpoint answered 2xx.
C37_TokenBeforeUpload ==
    [][\A w \in Workers :
          UploadReturns(w) =>
             /\ task'[w].result = "token" =>
                   ~task'[w].sent /\ uploaded' = uploaded
             /\ task'[w].sent => issued' # <<>> /\ task'[w].result \in {"ok", "upload"}
             /\ uploaded' # uploaded => task'[w].sent
             /\ task'[w].result = "ok" =>
                   /\ task'[w].sent
                   /\ task'[w].status >= 200 /\ task'[w].status <= 299]_vars

\* after an upload that succeeded, a later cycle failed to obtain its token
\* and sent nothing
C37_Witness ==
    /\ Len(uploaded) = 1
    /\ task["periodic"].pc = "done"
    /\ task["periodic"].result = "token"
    /\ ~task["periodic"].sent

\* the destination holds a recorded_at that is no timestamp
HoldsGarbled == \E r \in BagToSet(dest) : r.recorded_at = Garbled

\* C38: the relational sink's cursor for a cycle is the maximum recorded_at
\* stored in the destination; with an empty destination, a failed query or a
\* maximum that does not parse there is no cursor, and then the cycle's delta
\* is the entire buffer.
C38_CursorIsDestinationMaximum ==
    [][\A p \in Workers :
          /\ publish_fetch_latest_err(p) => pg'[p].latest = None
          /\ publish_fetch_latest_ok(p) =>
                IF dest = EmptyBag \/ HoldsGarbled
                THEN pg'[p].latest = None
                ELSE /\ \E r \in BagToSet(dest) : r.recorded_at = pg'[p].latest
                     /\ \A r \in BagToSet(dest) : r.recorded_at <= pg'[p].latest
          /\ publish_fetch_new_ok(p) =>
                IF pg[p].latest = None
                THEN pg'[p].events = log
                ELSE /\ \A i \in DOMAIN log :
                           log[i].recorded_at > pg[p].latest
                              <=> log[i] \in ToSet(pg'[p].events)
                     /\ Len(pg'[p].events) <= Len(log)]_vars

\* a cycle took the whole buffer as its delta because the destination's
\* maximum does not parse, although the buffer's rows are older than a row
\* the destination holds
C38_Witness ==
    /\ HoldsGarbled
    /\ pg["periodic"].pc = "insert"
    /\ pg["periodic"].latest = None
    /\ Len(log) >= 2
    /\ pg["periodic"].events = log

\* the call was answered with the cached token, without an exchange
ServedFromCache ==
    /\ CallStep
    /\ auth'.ret = "ok"
    /\ ~auth'.exchanged
    /\ auth'.token = auth.cached_token[1].token

\* C39: a cached token counts as expired exactly when now + 300 s reaches its
\* expires_at: with exactly the buffer left it is expired, with one unit
\* more it is not, and a token granted for at most the buffer is never
\* served from the cache.
C39_ExpiryBufferIsInclusive ==
    [][(CallStep /\ auth.cached_token # <<>>) =>
          LET left == auth.cached_token[1].expires_at - clock IN
             /\ ServedFromCache <=> ~(clock + ExpiryBuffer >= auth.cached_token[1].expires_at)
             /\ left = ExpiryBuffer => ~ServedFromCache
             /\ left = ExpiryBuffer + 1 => ServedFromCache
             /\ auth.expires_in <= ExpiryBuffer => ~ServedFromCache]_vars

\* a token granted for exactly the buffer is cached, and the next call
\* made in the same instant exchanged again instead of returning it
C39_Witness ==
    /\ auth.calls >= 2
    /\ auth.exchanges = 2
    /\ auth.ret = "ok"
    /\ auth.expires_in = ExpiryBuffer
    /\ auth.cached_token # <<>>
    /\ auth.cached_token[1].expires_at = clock + ExpiryBuffer
====
